---- MODULE Spec2Model ----
(***************************************************************************)
(* Model of the localization extractor (extract, extractFromFile, insert,  *)
(* the two call-site extractors and unescapeString).                       *)
(*                                                                         *)
(* A string is a sequence of characters, each character a one-element      *)
(* token.  A Localization is a tagged tree: an object holds a function     *)
(* from path segment to entry, an entry is a string leaf or an object.     *)
(***************************************************************************)
EXTENDS Integers, Sequences, FiniteSets, TLC

(***************************************************************************)
(* Bounds of the model.                                                    *)
(***************************************************************************)
MaxLen == 4

MaxSegs == 2

MaxArgs == 3

MaxProps == 3

MaxCalls == 3

MaxFiles == 2

(***************************************************************************)
(* Characters.                                                             *)
(***************************************************************************)
BS == "\\"

SQ == "'"

DQ == "\""

LF == "<LF>"

CR == "<CR>"

TAB == "<TAB>"

BSP == "<BACKSPACE>"

FF == "<FF>"

SLASH == "/"

(***************************************************************************)
(* unescapeMap: the recognised escape letters and their meaning.           *)
(***************************************************************************)
unescapeMap ==
    (SQ :> SQ) @@ (DQ :> DQ) @@ (BS :> BS) @@ ("n" :> LF) @@ ("r" :> CR)
    @@ ("t" :> TAB) @@ ("b" :> BSP) @@ ("f" :> FF)

(***************************************************************************)
(* unescapeString: the loop over i, as a recursion on i.  A backslash with *)
(* a recognised successor pushes the replacement and skips the successor;  *)
(* everything else pushes the character itself.                            *)
(***************************************************************************)
RECURSIVE unescapeFrom(_, _)
unescapeFrom(str, i) ==
    IF i > Len(str) THEN <<>>
    ELSE IF str[i] = BS /\ i + 1 <= Len(str) /\ str[i + 1] \in DOMAIN unescapeMap
         THEN <<unescapeMap[str[i + 1]]>> \o unescapeFrom(str, i + 2)
         ELSE <<str[i]>> \o unescapeFrom(str, i + 1)

\* a plausible slip: the backslash is consumed whatever follows it
unescapeString_dropsBackslash(str) ==
    LET RECURSIVE from(_)
        from(i) ==
            IF i > Len(str) THEN <<>>
            ELSE IF str[i] = BS /\ i + 1 <= Len(str)
                 THEN <<IF str[i + 1] \in DOMAIN unescapeMap
                        THEN unescapeMap[str[i + 1]] ELSE str[i + 1]>> \o from(i + 2)
                 ELSE <<str[i]>> \o from(i + 1)
    IN from(1)

unescapeString(str) == unescapeFrom(str, 1)

(***************************************************************************)
(* String helpers of the host language: key.split('/'), parts.join('/'),   *)
(* key.startsWith(prefix).                                                 *)
(***************************************************************************)
RECURSIVE split(_)
split(key) ==
    IF \E i \in 1..Len(key) : key[i] = SLASH
    THEN LET i == CHOOSE j \in 1..Len(key) :
                      key[j] = SLASH /\ \A k \in 1..(j - 1) : key[k] # SLASH
         IN <<SubSeq(key, 1, i - 1)>> \o split(SubSeq(key, i + 1, Len(key)))
    ELSE <<key>>

RECURSIVE join(_)
join(parts) ==
    IF Len(parts) = 0 THEN <<>>
    ELSE IF Len(parts) = 1 THEN parts[1]
    ELSE parts[1] \o <<SLASH>> \o join(Tail(parts))

startsWith(key, prefix) ==
    Len(prefix) <= Len(key) /\ SubSeq(key, 1, Len(prefix)) = prefix

(***************************************************************************)
(* Localization entries.                                                   *)
(***************************************************************************)
StringEntry(text) == [kind |-> "string", text |-> text, entries |-> <<>>]

ObjectEntry(entries) == [kind |-> "object", text |-> <<>>, entries |-> entries]

EmptyLocalization == ObjectEntry(<<>>)

Put(entries, part, entry) == (part :> entry) @@ entries

NoError == [msg |-> "none", at |-> <<>>]

(***************************************************************************)
(* insert: parts.forEach walks the segments.  `localization' is the object *)
(* the walk stands on; every assignment localization[part] = ... is kept   *)
(* in the returned tree even when a later segment throws, as the mutation  *)
(* of the caller's object is.  The result holds the tree after the call    *)
(* and the error thrown, if any.                                           *)
(***************************************************************************)
RECURSIVE insertFrom(_, _, _, _, _)
insertFrom(localization, parts, i, key, value) ==
    LET part == parts[i]
        has == part \in DOMAIN localization.entries
        entry == localization.entries[part]
    IN IF i = Len(parts)
       THEN IF has /\ entry.kind = "object"
            THEN [localization |-> localization,
                  thrown |-> [msg |-> "Multiple tranlation keys already exist at",
                              at |-> key]]
            ELSE [localization |->
                      ObjectEntry(Put(localization.entries, part, StringEntry(value))),
                  thrown |-> NoError]
       ELSE IF has /\ entry.kind = "string"
            THEN [localization |-> localization,
                  thrown |-> [msg |-> "String entry already exists at",
                              at |-> join(SubSeq(parts, 1, i))]]
            ELSE LET child == IF has THEN entry ELSE EmptyLocalization
                     sub == insertFrom(child, parts, i + 1, key, value)
                 IN [localization |->
                         ObjectEntry(Put(localization.entries, part, sub.localization)),
                     thrown |-> sub.thrown]

\* a plausible slip: the intermediate node is created before the string check of
\* the next segment can stop the walk, and a string in the way is replaced
insert_overwritesString(localization, key, value) ==
    LET RECURSIVE from(_, _)
        from(loc, i) ==
            LET parts == split(key)
                part == parts[i]
                has == part \in DOMAIN loc.entries
                entry == loc.entries[part]
            IN IF i = Len(parts)
               THEN IF has /\ entry.kind = "object"
                    THEN [localization |-> loc,
                          thrown |-> [msg |-> "Multiple tranlation keys already exist at",
                                      at |-> key]]
                    ELSE [localization |->
                              ObjectEntry(Put(loc.entries, part, StringEntry(value))),
                          thrown |-> NoError]
               ELSE LET child == IF has /\ entry.kind = "object"
                                 THEN entry ELSE EmptyLocalization
                        sub == from(child, i + 1)
                    IN [localization |->
                            ObjectEntry(Put(loc.entries, part, sub.localization)),
                        thrown |-> sub.thrown]
    IN from(localization, 1)

(***************************************************************************)
(* Reading a tree by key path.                                             *)
(***************************************************************************)
RECURSIVE lookupFrom(_, _, _)
lookupFrom(localization, parts, i) ==
    IF localization.kind # "object" \/ parts[i] \notin DOMAIN localization.entries
    THEN [kind |-> "absent", text |-> <<>>, entries |-> <<>>]
    ELSE IF i = Len(parts) THEN localization.entries[parts[i]]
    ELSE lookupFrom(localization.entries[parts[i]], parts, i + 1)

Lookup(localization, key) == lookupFrom(localization, split(key), 1)

LookupPath(localization, parts) ==
    IF Len(parts) = 0 THEN localization ELSE lookupFrom(localization, parts, 1)

StringOnProperPrefix(localization, key) ==
    LET parts == split(key)
    IN \E i \in 1..(Len(parts) - 1) :
           LookupPath(localization, SubSeq(parts, 1, i)).kind = "string"

\* a plausible slip: a key that already holds a string is refused as well
insert_strict(localization, key, value) ==
    IF Lookup(localization, key).kind = "string"
    THEN [localization |-> localization,
          thrown |-> [msg |-> "String entry already exists at", at |-> key]]
    ELSE insertFrom(localization, split(key), 1, key, value)

insert(localization, key, value) == insertFrom(localization, split(key), 1, key, value)

(***************************************************************************)
(* Syntax nodes.  A call node holds the text of the invoked expression,    *)
(* the file it stands in, its position and its arguments.  An expression   *)
(* is a string literal (with its text), an object literal (with its        *)
(* properties) or anything else.  The position of a child is the position  *)
(* of its parent extended by the child's index.                            *)
(***************************************************************************)
StringLiteral(text) == [kind |-> "stringLiteral", text |-> text, properties |-> <<>>]

OtherExpression == [kind |-> "other", text |-> <<>>, properties |-> <<>>]

ObjectLiteral(properties) ==
    [kind |-> "objectLiteral", text |-> <<>>, properties |-> properties]

\* kind: assignment | shorthand | spread; nameKind: identifier | stringLiteral | none
Property(kind, nameKind, name, initializer) ==
    [kind |-> kind, nameKind |-> nameKind, name |-> name, initializer |-> initializer]

PropertyAssignment(name, initializer) ==
    Property("assignment", "identifier", name, initializer)

CallExpression(callee, file, pos, args) ==
    [kind |-> "call", callee |-> callee, file |-> file, pos |-> pos, args |-> args]

(***************************************************************************)
(* Errors.  A TypeScriptError's message is buildErrorMessage's             *)
(* "file(line,col): message"; insert throws a plain Error that names a key *)
(* and no location.                                                        *)
(***************************************************************************)
buildErrorMessage(message, file, pos) ==
    [file |-> file, pos |-> pos, msg |-> message, at |-> <<>>]

NoMessage == [file |-> <<>>, pos |-> <<>>, msg |-> "none", at |-> <<>>]

insertErrorMessage(thrownByInsert) ==
    [file |-> <<>>, pos |-> <<>>, msg |-> thrownByInsert.msg, at |-> thrownByInsert.at]

(***************************************************************************)
(* extractString                                                           *)
(***************************************************************************)
extractString(node, file, pos) ==
    IF node.kind # "stringLiteral"
    THEN [message |-> buildErrorMessage("is not a string constant", file, pos),
          value |-> <<>>]
    ELSE [message |-> NoMessage, value |-> unescapeString(node.text)]

(***************************************************************************)
(* extractFromLocalizeCall                                                 *)
(***************************************************************************)
\* a plausible slip: the arguments are read in the wrong order
extractFromLocalizeCall_swapped(node) ==
    IF node.kind # "call" \/ Len(node.args) < 2
    THEN [message |-> buildErrorMessage("Localize call needs at least 2 arguments",
                                        node.file, node.pos),
          key |-> <<>>, value |-> <<>>]
    ELSE LET key == extractString(node.args[2], node.file, Append(node.pos, 2))
             value == extractString(node.args[1], node.file, Append(node.pos, 1))
         IN IF key.message # NoMessage
            THEN [message |-> key.message, key |-> <<>>, value |-> <<>>]
            ELSE IF value.message # NoMessage
            THEN [message |-> value.message, key |-> <<>>, value |-> <<>>]
            ELSE [message |-> NoMessage, key |-> key.value, value |-> value.value]

extractFromLocalizeCall(node) ==
    IF node.kind # "call"
    THEN [message |-> buildErrorMessage("Invalid node type", node.file, node.pos),
          key |-> <<>>, value |-> <<>>]
    ELSE IF Len(node.args) < 2
    THEN [message |-> buildErrorMessage("Localize call needs at least 2 arguments",
                                        node.file, node.pos),
          key |-> <<>>, value |-> <<>>]
    ELSE LET key == extractString(node.args[1], node.file, Append(node.pos, 1))
             value == extractString(node.args[2], node.file, Append(node.pos, 2))
         IN IF key.message # NoMessage
            THEN [message |-> key.message, key |-> <<>>, value |-> <<>>]
            ELSE IF value.message # NoMessage
            THEN [message |-> value.message, key |-> <<>>, value |-> <<>>]
            ELSE [message |-> NoMessage, key |-> key.value, value |-> value.value]

(***************************************************************************)
(* extractFromLocalizedCommandCall.  scanProperties is the loop over the   *)
(* object literal's properties: it returns the property map built so far   *)
(* and the error thrown, if any.  The map holds a name only once set.      *)
(***************************************************************************)
relevantProps == {"id", "label", "category"}

RECURSIVE scanProperties(_, _, _, _, _)
scanProperties(properties, i, propertyMap, file, pos) ==
    IF i > Len(properties) THEN [message |-> NoMessage, propertyMap |-> propertyMap]
    ELSE LET property == properties[i]
             at == Append(pos, i)
         IN IF property.nameKind = "none"
            THEN scanProperties(properties, i + 1, propertyMap, file, pos)
            ELSE IF property.kind # "assignment"
            THEN [message |->
                      buildErrorMessage("Only property assignments are allowed", file, at),
                  propertyMap |-> propertyMap]
            ELSE IF property.nameKind # "identifier"
            THEN [message |->
                      buildErrorMessage("Only identifiers are allowed", file, at),
                  propertyMap |-> propertyMap]
            ELSE IF property.name \notin relevantProps
            THEN scanProperties(properties, i + 1, propertyMap, file, pos)
            ELSE LET value == extractString(property.initializer, file, Append(at, 1))
                 IN IF value.message # NoMessage
                    THEN [message |-> value.message, propertyMap |-> propertyMap]
                    ELSE scanProperties(properties, i + 1,
                                        (property.name :> value.value) @@ propertyMap,
                                        file, pos)

\* a plausible slip: only undefined is taken as absent
Truthy_definedOnly(propertyMap, name) == name \in DOMAIN propertyMap

\* undefined and the empty string are the falsy strings
Truthy(propertyMap, name) == name \in DOMAIN propertyMap /\ propertyMap[name] # <<>>

CommandThrow(message) ==
    [message |-> message, label |-> <<>>, category |-> <<>>]

\* label and category are <<key, value>> pairs; category is <<>> when undefined
commandResult(node, propertyMap) ==
    LET arg1 == IF Len(node.args) > 1
                THEN extractString(node.args[2], node.file, Append(node.pos, 2))
                ELSE [message |-> NoMessage, value |-> <<>>]
        arg2 == IF Len(node.args) > 2
                THEN extractString(node.args[3], node.file, Append(node.pos, 3))
                ELSE [message |-> NoMessage, value |-> <<>>]
        \* extractString(args[1]) || labelKey, <<>> standing for a falsy key
        labelKey == IF arg1.value # <<>> THEN arg1.value
                    ELSE IF Truthy(propertyMap, "id") THEN propertyMap["id"] ELSE <<>>
        categoryKey == arg2.value
    IN IF arg1.message # NoMessage THEN CommandThrow(arg1.message)
       ELSE IF arg2.message # NoMessage THEN CommandThrow(arg2.message)
       ELSE IF labelKey = <<>>
       THEN CommandThrow(buildErrorMessage("No label key found", node.file, node.pos))
       ELSE IF ~Truthy(propertyMap, "label")
       THEN CommandThrow(buildErrorMessage("No default label found", node.file, node.pos))
       ELSE [message |-> NoMessage,
             label |-> <<labelKey, propertyMap["label"]>>,
             category |-> IF categoryKey # <<>> /\ Truthy(propertyMap, "category")
                          THEN <<categoryKey, propertyMap["category"]>>
                          ELSE <<>>]

extractFromLocalizedCommandCall(node) ==
    IF node.kind # "call"
    THEN CommandThrow(buildErrorMessage("Invalid node type", node.file, node.pos))
    ELSE IF Len(node.args) < 1
    THEN CommandThrow(buildErrorMessage("Localize call needs at least 2 arguments",
                                        node.file, node.pos))
    ELSE IF node.args[1].kind # "objectLiteral"
    THEN CommandThrow(buildErrorMessage("First argument needs to be an object literal",
                                        node.file, node.pos))
    ELSE LET scanned == scanProperties(node.args[1].properties, 1, <<>>,
                                       node.file, Append(node.pos, 1))
         IN IF scanned.message # NoMessage THEN CommandThrow(scanned.message)
            ELSE commandResult(node, scanned.propertyMap)

isLocalizeCall(node) == node.kind = "call" /\ node.callee = "nls.localize"

isCommandLocalizeUtility(node) ==
    node.kind = "call" /\ node.callee = "Command.toLocalizedCommand"

(***************************************************************************)
(* isExcluded: !!options.exclude && key.startsWith(options.exclude); an    *)
(* undefined and an empty exclude are both <<>>.                           *)
(***************************************************************************)
isExcluded(options, key) ==
    options.exclude # <<>> /\ startsWith(key, options.exclude)

(***************************************************************************)
(* The body of the two loops of extractFromFile: one try/catch per call.   *)
(* `state' holds the fragment and the error sink.  Whatever insert had     *)
(* assigned before it threw stays in the fragment.                         *)
(***************************************************************************)
\* a plausible slip: the exclusion test is left out
insertUnlessExcluded_noFilter(state, options, key, value) ==
    LET r == insert(state.localization, key, value)
    IN [localization |-> r.localization, thrown |-> r.thrown]

\* if (!isExcluded(options, key)) { insert(localization, key, value); }
insertUnlessExcluded(state, options, key, value) ==
    IF isExcluded(options, key)
    THEN [localization |-> state.localization, thrown |-> NoError]
    ELSE LET r == insert(state.localization, key, value)
         IN [localization |-> r.localization, thrown |-> r.thrown]

\* a plausible slip: the catch block swallows the error without recording it
localizeCallStep_silent(state, call, options) ==
    LET extracted_ == extractFromLocalizeCall(call)
    IN IF extracted_.message # NoMessage
       THEN state
       ELSE LET r == insertUnlessExcluded(state, options, extracted_.key, extracted_.value)
            IN [localization |-> r.localization,
                errors |-> IF r.thrown # NoError
                           THEN Append(state.errors, insertErrorMessage(r.thrown))
                           ELSE state.errors]

localizeCallStep(state, call, options) ==
    LET extracted_ == extractFromLocalizeCall(call)
    IN IF extracted_.message # NoMessage
       THEN [localization |-> state.localization,
             errors |-> Append(state.errors, extracted_.message)]
       ELSE LET r == insertUnlessExcluded(state, options, extracted_.key, extracted_.value)
            IN [localization |-> r.localization,
                errors |-> IF r.thrown # NoError
                           THEN Append(state.errors, insertErrorMessage(r.thrown))
                           ELSE state.errors]

commandCallStep(state, command, options) ==
    LET extracted_ == extractFromLocalizedCommandCall(command)
        label == extracted_.label
        category == extracted_.category
    IN IF extracted_.message # NoMessage
       THEN [localization |-> state.localization,
             errors |-> Append(state.errors, extracted_.message)]
       ELSE LET l == insertUnlessExcluded(state, options, label[1], label[2])
            IN IF l.thrown # NoError
               THEN [localization |-> l.localization,
                     errors |-> Append(state.errors, insertErrorMessage(l.thrown))]
               ELSE IF category = <<>>
               THEN [localization |-> l.localization, errors |-> state.errors]
               ELSE LET c == insertUnlessExcluded([state EXCEPT !.localization = l.localization],
                                                  options, category[1], category[2])
                    IN [localization |-> c.localization,
                        errors |-> IF c.thrown # NoError
                                   THEN Append(state.errors, insertErrorMessage(c.thrown))
                                   ELSE state.errors]

(***************************************************************************)
(* collect: the nodes of the file that satisfy the predicate, in source    *)
(* order.  A file is the sequence of its recognised call nodes.            *)
(***************************************************************************)
collectLocalizeCalls(sourceFile) == SelectSeq(sourceFile, isLocalizeCall)

collectLocalizedCommands(sourceFile) == SelectSeq(sourceFile, isCommandLocalizeUtility)

(***************************************************************************)
(* extractFromFile, once the file is read: the loop over the localize      *)
(* calls, then the loop over the localized commands.                       *)
(***************************************************************************)
RECURSIVE localizeCallsLoop(_, _, _, _)
localizeCallsLoop(state, calls, i, options) ==
    IF i > Len(calls) THEN state
    ELSE localizeCallsLoop(localizeCallStep(state, calls[i], options), calls, i + 1, options)

RECURSIVE localizedCommandsLoop(_, _, _, _)
localizedCommandsLoop(state, commands, i, options) ==
    IF i > Len(commands) THEN state
    ELSE localizedCommandsLoop(commandCallStep(state, commands[i], options),
                               commands, i + 1, options)

extractFromFile(sourceFile, options, errors) ==
    localizedCommandsLoop(
        localizeCallsLoop([localization |-> EmptyLocalization, errors |-> errors],
                          collectLocalizeCalls(sourceFile), 1, options),
        collectLocalizedCommands(sourceFile), 1, options)

(***************************************************************************)
(* deepmerge(target, source) of the deepmerge package, on trees of objects *)
(* and strings: two objects are merged key by key, a key of the source     *)
(* that the target holds too being merged recursively when the source's    *)
(* value is an object; in every other case the source's value is taken.    *)
(***************************************************************************)
RECURSIVE deepmerge(_, _)
deepmerge(target, source_) ==
    IF target.kind = "object" /\ source_.kind = "object"
    THEN ObjectEntry(
             [key \in DOMAIN target.entries \cup DOMAIN source_.entries |->
                 IF key \notin DOMAIN source_.entries THEN target.entries[key]
                 ELSE IF key \in DOMAIN target.entries
                         /\ source_.entries[key].kind = "object"
                 THEN deepmerge(target.entries[key], source_.entries[key])
                 ELSE source_.entries[key]])
    ELSE source_

VARIABLES
    str, result,
    catalog, inserted, thrown,
    node, extracted,
    options, errors,
    source, fileLocalization, filePc,
    localization, files, fileIndex, pc, events, existing, output, logs

varsUnescape == <<str, result>>

varsInsert == <<catalog, inserted, thrown>>

varsCalls == <<node, extracted>>

varsFile == <<source, fileLocalization, filePc>>

varsRun == <<localization, files, fileIndex, pc, events, existing, output, logs>>

vars == <<str, result, catalog, inserted, thrown, node, extracted, options, errors,
          source, fileLocalization, filePc,
          localization, files, fileIndex, pc, events, existing, output, logs>>

(***************************************************************************)
(* Bounded input sets.                                                     *)
(***************************************************************************)
\* no insert call made yet
NoCall == [key |-> <<>>, value |-> <<>>]

NoNode == CallExpression("", <<>>, <<>>, <<>>)

\* the extraction of `node' has not run yet
Pending == [pattern |-> "none", message |-> NoMessage, key |-> <<>>, value |-> <<>>,
            label |-> <<>>, category |-> <<>>]

NoOptions == [exclude |-> <<>>, logs |-> FALSE, merge |-> FALSE]

\* no extractFromFile call is under way
IdleFile ==
    /\ options = NoOptions
    /\ errors = <<>>
    /\ source = <<>>
    /\ fileLocalization = EmptyLocalization
    /\ filePc = "idle"

NotWritten == [written |-> FALSE, content |-> EmptyLocalization, lines |-> <<>>]

\* no extract run is under way
IdleRun ==
    /\ localization = EmptyLocalization
    /\ files = 0
    /\ fileIndex = 0
    /\ pc = "idle"
    /\ events = <<>>
    /\ existing = EmptyLocalization
    /\ output = NotWritten
    /\ logs = NotWritten

RECURSIVE SeqsUpTo(_, _)
SeqsUpTo(S, n) ==
    IF n = 0 THEN {<<>>}
    ELSE LET shorter == SeqsUpTo(S, n - 1)
         IN shorter \cup {Append(s, x) : s \in {t \in shorter : Len(t) = n - 1}, x \in S}

Alphabet == DOMAIN unescapeMap \cup {"q", "a"}

(***************************************************************************)
(* SpecUnescape: unescapeString applied to a bounded string, and applied   *)
(* again to its own output.                                                *)
(***************************************************************************)
InitUnescape ==
    /\ str \in SeqsUpTo(Alphabet, MaxLen)
    /\ result = <<>>
    /\ catalog = EmptyLocalization
    /\ inserted = NoCall
    /\ thrown = NoError
    /\ node = NoNode
    /\ extracted = Pending
    /\ IdleFile
    /\ IdleRun

Unescape ==
    /\ Len(result) < 2
    /\ result' = Append(result,
                        unescapeString(IF result = <<>> THEN str ELSE result[Len(result)]))
    /\ UNCHANGED <<str, varsInsert, varsCalls, options, errors, varsFile, varsRun>>

NextUnescape == Unescape

SpecUnescape == InitUnescape /\ [][NextUnescape]_vars

(***************************************************************************)
(* SpecInsert: a catalog built by successive insert calls, each with a key *)
(* of at most MaxSegs segments.  A call that throws leaves in `catalog'    *)
(* whatever the walk had assigned before the throw.  Keys of one segment   *)
(* take either value, longer keys the first one.                           *)
(***************************************************************************)
Segments == {<<"a">>, <<"b">>}

Values == {<<"1">>, <<"2">>}

Keys == {join(parts) : parts \in SeqsUpTo(Segments, MaxSegs) \ {<<>>}}

InitInsert ==
    /\ str = <<>>
    /\ result = <<>>
    /\ catalog = EmptyLocalization
    /\ inserted = NoCall
    /\ thrown = NoError
    /\ node = NoNode
    /\ extracted = Pending
    /\ IdleFile
    /\ IdleRun

Insert ==
    \E key \in Keys, value \in Values :
        LET r == insert(catalog, key, value)
        IN /\ Len(split(key)) > 1 => value = <<"1">>
           /\ catalog' = r.localization
           /\ inserted' = [key |-> key, value |-> value]
           /\ thrown' = r.thrown
           /\ UNCHANGED <<varsUnescape, varsCalls, options, errors, varsFile, varsRun>>

NextInsert == Insert

SpecInsert == InitInsert /\ [][NextInsert]_vars

(***************************************************************************)
(* SpecCalls: one recognised call node, drawn from the bounded node sets,  *)
(* and its extraction by the extractor of its pattern.                     *)
(***************************************************************************)
\* a file's path: the root and the file's index among the matches
PathOf(index) == <<"src", index>>

FileName == PathOf(1)

LocalizeTexts == {<<>>, <<"k">>, <<BS, "n">>}

LocalizeArgs == {StringLiteral(t) : t \in LocalizeTexts} \cup {OtherExpression}

LocalizeNodes(file) ==
    {CallExpression("nls.localize", file, <<1>>, args) :
        args \in SeqsUpTo(LocalizeArgs, MaxArgs)}

CommandProperties ==
    {PropertyAssignment("id", StringLiteral(t)) : t \in {<<"K">>, <<>>}}
    \cup {PropertyAssignment("label", StringLiteral(t)) : t \in {<<"L">>, <<>>}}
    \cup {PropertyAssignment("category", StringLiteral(t)) : t \in {<<"C">>, <<>>}}
    \cup {PropertyAssignment("id", OtherExpression),
          PropertyAssignment("other", OtherExpression),
          Property("shorthand", "identifier", "label", OtherExpression),
          Property("spread", "none", "", OtherExpression),
          Property("assignment", "stringLiteral", "id", StringLiteral(<<"K">>))}

\* the arguments after the object literal: label key, category key, anything
CommandArgTails(n) ==
    {tail \in SeqsUpTo({StringLiteral(<<"K2">>), StringLiteral(<<"C2">>),
                        StringLiteral(<<>>), OtherExpression}, n) :
        /\ Len(tail) >= 1 => tail[1] # StringLiteral(<<"C2">>)
        /\ Len(tail) >= 2 => tail[2] # StringLiteral(<<"K2">>)
        /\ \A i \in 3..Len(tail) : tail[i] = OtherExpression}

CommandNodes(file) ==
    {CallExpression("Command.toLocalizedCommand", file, <<1>>,
                    <<ObjectLiteral(properties)>> \o tail) :
        properties \in SeqsUpTo(CommandProperties, MaxProps), tail \in CommandArgTails(MaxArgs - 1)}
    \cup {CallExpression("Command.toLocalizedCommand", file, <<1>>, args) :
             args \in {<<>>, <<OtherExpression>>, <<StringLiteral(<<"K">>), StringLiteral(<<"K2">>)>>}}

InitCalls ==
    /\ str = <<>>
    /\ result = <<>>
    /\ catalog = EmptyLocalization
    /\ inserted = NoCall
    /\ thrown = NoError
    /\ node \in LocalizeNodes(FileName) \cup CommandNodes(FileName)
    /\ extracted = Pending
    /\ IdleFile
    /\ IdleRun

ExtractLocalize ==
    /\ extracted = Pending
    /\ isLocalizeCall(node)
    /\ LET r == extractFromLocalizeCall(node)
       IN extracted' = [Pending EXCEPT !.pattern = "A", !.message = r.message,
                                       !.key = r.key, !.value = r.value]
    /\ UNCHANGED <<node, varsUnescape, varsInsert, options, errors, varsFile, varsRun>>

ExtractCommand ==
    /\ extracted = Pending
    /\ isCommandLocalizeUtility(node)
    /\ LET r == extractFromLocalizedCommandCall(node)
       IN extracted' = [Pending EXCEPT !.pattern = "B", !.message = r.message,
                                       !.label = r.label, !.category = r.category]
    /\ UNCHANGED <<node, varsUnescape, varsInsert, options, errors, varsFile, varsRun>>

NextCalls == ExtractLocalize \/ ExtractCommand

SpecCalls == InitCalls /\ [][NextCalls]_vars

(***************************************************************************)
(* SpecFile: one extractFromFile call.  `source' is the sequence of the    *)
(* recognised calls of the file read so far, in the order the two loops    *)
(* take them: the nls.localize calls, then the toLocalizedCommand calls.   *)
(* A call's position is its index in that order.                           *)
(***************************************************************************)
Excludes == {<<>>, <<"a", "/">>}

\* four well-formed calls, one with a single argument, one whose key is no literal
LocalizeCallsAt(pos) ==
    {CallExpression("nls.localize", FileName, <<pos>>, args) :
        args \in {<<StringLiteral(<<"a">>), StringLiteral(<<"1">>)>>,
                  <<StringLiteral(<<"a">>), StringLiteral(<<"2">>)>>,
                  <<StringLiteral(<<"a", "/", "b">>), StringLiteral(<<"1">>)>>,
                  <<StringLiteral(<<"b">>), StringLiteral(<<"1">>)>>,
                  <<StringLiteral(<<"a">>)>>,
                  <<OtherExpression, StringLiteral(<<"1">>)>>}}

CommandObject(withCategory) ==
    ObjectLiteral(<<PropertyAssignment("id", StringLiteral(<<"b">>)),
                    PropertyAssignment("label", StringLiteral(<<"1">>))>>
                  \o IF withCategory
                     THEN <<PropertyAssignment("category", StringLiteral(<<"2">>))>>
                     ELSE <<>>)

\* label and category keys given, a label key alone, the id as the label key,
\* and an object literal with no label
CommandCallsAt(pos) ==
    {CallExpression("Command.toLocalizedCommand", FileName, <<pos>>, args) :
        args \in {<<CommandObject(TRUE), StringLiteral(<<"a", "/", "b">>), StringLiteral(<<"b">>)>>,
                  <<CommandObject(TRUE), StringLiteral(<<"b">>), StringLiteral(<<"a">>)>>,
                  <<CommandObject(TRUE), StringLiteral(<<"a">>), StringLiteral(<<"a", "/", "b">>)>>,
                  <<CommandObject(FALSE), StringLiteral(<<"a">>)>>,
                  <<CommandObject(FALSE)>>,
                  <<ObjectLiteral(<<PropertyAssignment("id", StringLiteral(<<"a">>))>>)>>}}

InitFile ==
    /\ str = <<>>
    /\ result = <<>>
    /\ catalog = EmptyLocalization
    /\ inserted = NoCall
    /\ thrown = NoError
    /\ node = NoNode
    /\ extracted = Pending
    /\ options \in {[NoOptions EXCEPT !.exclude = e] : e \in Excludes}
    /\ errors = <<>>
    /\ source = <<>>
    /\ fileLocalization = EmptyLocalization
    /\ filePc = "read"
    /\ IdleRun

\* await fs.promises.readFile: the content arrives, or the promise rejects and
\* the rejection leaves extractFromFile
ReadFile ==
    /\ filePc = "read"
    /\ filePc' \in {"localize", "rejected"}
    /\ UNCHANGED <<varsUnescape, varsInsert, varsCalls, options, errors,
                   source, fileLocalization, varsRun>>

LocalizeCall ==
    /\ filePc = "localize"
    /\ Len(source) < MaxCalls
    /\ \E call \in LocalizeCallsAt(Len(source) + 1) :
          LET next == localizeCallStep([localization |-> fileLocalization,
                                        errors |-> errors], call, options)
          IN /\ source' = Append(source, call)
             /\ fileLocalization' = next.localization
             /\ errors' = next.errors
    /\ UNCHANGED <<varsUnescape, varsInsert, varsCalls, options, filePc, varsRun>>

LocalizeCallsDone ==
    /\ filePc = "localize"
    /\ filePc' = "commands"
    /\ UNCHANGED <<varsUnescape, varsInsert, varsCalls, options, errors,
                   source, fileLocalization, varsRun>>

CommandCall ==
    /\ filePc = "commands"
    /\ Len(source) < MaxCalls
    /\ \E command \in CommandCallsAt(Len(source) + 1) :
          LET next == commandCallStep([localization |-> fileLocalization,
                                       errors |-> errors], command, options)
          IN /\ source' = Append(source, command)
             /\ fileLocalization' = next.localization
             /\ errors' = next.errors
    /\ UNCHANGED <<varsUnescape, varsInsert, varsCalls, options, filePc, varsRun>>

ReturnLocalization ==
    /\ filePc = "commands"
    /\ filePc' = "returned"
    /\ UNCHANGED <<varsUnescape, varsInsert, varsCalls, options, errors,
                   source, fileLocalization, varsRun>>

NextFile ==
    \/ ReadFile
    \/ LocalizeCall
    \/ LocalizeCallsDone
    \/ CommandCall
    \/ ReturnLocalization

SpecFile == InitFile /\ [][NextFile]_vars

(***************************************************************************)
(* Spec: one run of extract over at most MaxFiles files.  `events' is the  *)
(* order of the run's file operations and merges.                          *)
(***************************************************************************)
Lit(chars) == StringLiteral(chars)

\* the contents a source file may have, as its recognised calls in source order
SourceFiles(file) ==
    {<<>>,
     <<CallExpression("nls.localize", file, <<1>>, <<Lit(<<"a">>), Lit(<<"1">>)>>)>>,
     <<CallExpression("nls.localize", file, <<1>>, <<Lit(<<"a">>), Lit(<<"1">>)>>),
       CallExpression("nls.localize", file, <<2>>, <<Lit(<<"b", "/", "c">>), Lit(<<"2">>)>>)>>,
     <<CallExpression("nls.localize", file, <<1>>, <<Lit(<<"a">>)>>),
       CallExpression("nls.localize", file, <<2>>, <<Lit(<<"a", "/", "b">>), Lit(<<"1">>)>>)>>,
     <<CallExpression("Command.toLocalizedCommand", file, <<1>>,
                      <<CommandObject(TRUE), Lit(<<"b">>), Lit(<<"a", "/", "b">>)>>),
       CallExpression("nls.localize", file, <<2>>, <<Lit(<<"b">>), Lit(<<"2">>)>>)>>,
     <<CallExpression("nls.localize", file, <<1>>, <<Lit(<<"a">>), Lit(<<"2">>)>>),
       CallExpression("nls.localize", file, <<2>>, <<Lit(<<"a", "/", "b">>), Lit(<<"1">>)>>)>>}

RECURSIVE FromPairs(_)
FromPairs(pairs) ==
    IF pairs = <<>> THEN EmptyLocalization
    ELSE insert(FromPairs(SubSeq(pairs, 1, Len(pairs) - 1)),
                pairs[Len(pairs)][1], pairs[Len(pairs)][2]).localization

\* the catalogs the output file may hold before the run
ExistingCatalogs ==
    {EmptyLocalization,
     FromPairs(<<(<<(<<"a">>), (<<"0">>)>>), (<<(<<"b", "/", "d">>), (<<"3">>)>>)>>),
     FromPairs(<<(<<(<<"a", "/", "c">>), (<<"0">>)>>), (<<(<<"b">>), (<<"0">>)>>)>>),
     ObjectEntry((<<"b">> :> EmptyLocalization))}

Event(kind, index) == [kind |-> kind, file |-> index]

Init ==
    /\ str = <<>>
    /\ result = <<>>
    /\ catalog = EmptyLocalization
    /\ inserted = NoCall
    /\ thrown = NoError
    /\ node = NoNode
    /\ extracted = Pending
    /\ options \in {[exclude |-> e, logs |-> l, merge |-> m] :
                       e \in Excludes, l \in BOOLEAN, m \in BOOLEAN}
    /\ errors = <<>>
    /\ source = <<>>
    /\ fileLocalization = EmptyLocalization
    /\ filePc = "idle"
    /\ localization = EmptyLocalization
    /\ files = 0
    /\ fileIndex = 0
    /\ pc = "glob"
    /\ events = <<>>
    /\ existing = EmptyLocalization
    /\ output = NotWritten
    /\ logs = NotWritten

\* a plausible slip: the operands of the merge with the fragment are swapped
mergeFragment_swapped(aggregate, fragment) == deepmerge(fragment, aggregate)

\* localization = deepmerge(localization, fileLocalization)
mergeFragment(aggregate, fragment) == deepmerge(aggregate, fragment)

\* localization = deepmerge(existing, localization)
mergeExisting(onDisk, aggregate) == deepmerge(onDisk, aggregate)

\* a plausible slip: the log is written whenever a log path is configured
logIsDue_alwaysWithPath(opts, errs) == opts.logs

\* errors.length > 0 && options.logs
logIsDue(opts, errs) == Len(errs) > 0 /\ opts.logs

\* await globPromise: the matches, or a rejection that ends the run
Glob ==
    /\ pc = "glob"
    /\ \/ /\ files' \in 0..MaxFiles
          /\ fileIndex' = 1
          /\ pc' = "loop"
          /\ events' = Append(events, Event("glob", 0))
       \/ /\ pc' = "rejected"
          /\ events' = Append(events, Event("globFailed", 0))
          /\ UNCHANGED <<files, fileIndex>>
    /\ UNCHANGED <<varsUnescape, varsInsert, varsCalls, options, errors, varsFile,
                   localization, existing, output, logs>>

\* extractFromFile's await fs.promises.readFile for the next file of the loop
ReadSourceFile ==
    /\ pc = "loop"
    /\ fileIndex <= files
    /\ \/ /\ source' \in SourceFiles(PathOf(fileIndex))
          /\ pc' = "extract"
          /\ events' = Append(events, Event("read", fileIndex))
       \/ /\ pc' = "rejected"
          /\ events' = Append(events, Event("readFailed", fileIndex))
          /\ UNCHANGED source
    /\ UNCHANGED <<varsUnescape, varsInsert, varsCalls, options, errors,
                   fileLocalization, filePc,
                   localization, files, fileIndex, existing, output, logs>>

\* the rest of extractFromFile and the merge of its fragment into the aggregate
ExtractAndMerge ==
    /\ pc = "extract"
    /\ LET returned == extractFromFile(source, options, errors)
       IN /\ fileLocalization' = returned.localization
          /\ errors' = returned.errors
          /\ localization' = mergeFragment(localization, returned.localization)
    /\ fileIndex' = fileIndex + 1
    /\ pc' = "loop"
    /\ events' = Append(events, Event("merge", fileIndex))
    /\ UNCHANGED <<varsUnescape, varsInsert, varsCalls, options, source, filePc,
                   files, existing, output, logs>>

\* if (errors.length > 0 && options.logs) await writeFile(options.logs, ...)
WriteLogs ==
    /\ pc = "loop"
    /\ fileIndex > files
    /\ IF logIsDue(options, errors)
       THEN \/ /\ logs' = [NotWritten EXCEPT !.written = TRUE, !.lines = errors]
               /\ pc' = "merge"
               /\ events' = Append(events, Event("writeLogs", 0))
            \/ /\ pc' = "rejected"
               /\ events' = Append(events, Event("writeLogsFailed", 0))
               /\ UNCHANGED logs
       ELSE /\ pc' = "merge"
            /\ UNCHANGED <<logs, events>>
    /\ UNCHANGED <<varsUnescape, varsInsert, varsCalls, options, errors, varsFile,
                   localization, files, fileIndex, existing, output>>

\* if (options.merge && await fs.pathExists(output)) { readJson; deepmerge }
MergeExisting ==
    /\ pc = "merge"
    /\ IF options.merge
       THEN \/ \E onDisk \in ExistingCatalogs :
                 /\ existing' = onDisk
                 /\ localization' = mergeExisting(onDisk, localization)
                 /\ pc' = "write"
                 /\ events' = Append(events, Event("readOutput", 0))
            \/ /\ pc' = "rejected"
               /\ events' = Append(events, Event("readOutputFailed", 0))
               /\ UNCHANGED <<existing, localization>>
            \/ /\ pc' = "write"
               /\ events' = Append(events, Event("noOutputYet", 0))
               /\ UNCHANGED <<existing, localization>>
       ELSE /\ pc' = "write"
            /\ UNCHANGED <<existing, localization, events>>
    /\ UNCHANGED <<varsUnescape, varsInsert, varsCalls, options, errors, varsFile,
                   files, fileIndex, output, logs>>

\* await fs.writeJson(options.output, localization, ...)
WriteOutput ==
    /\ pc = "write"
    /\ \/ /\ output' = [NotWritten EXCEPT !.written = TRUE, !.content = localization]
          /\ pc' = "done"
          /\ events' = Append(events, Event("writeOutput", 0))
       \/ /\ pc' = "rejected"
          /\ events' = Append(events, Event("writeOutputFailed", 0))
          /\ UNCHANGED output
    /\ UNCHANGED <<varsUnescape, varsInsert, varsCalls, options, errors, varsFile,
                   localization, files, fileIndex, existing, logs>>

Next ==
    \/ Glob
    \/ ReadSourceFile
    \/ ExtractAndMerge
    \/ WriteLogs
    \/ MergeExisting
    \/ WriteOutput

Spec == Init /\ [][Next]_vars

(***************************************************************************)
(* What a file's calls say, read off `source' without the fragment.        *)
(***************************************************************************)
RECURSIVE LeavesFrom(_, _)
LeavesFrom(tree, path) ==
    UNION {LET entry == tree.entries[part]
           IN IF entry.kind = "string"
              THEN {<<join(Append(path, part)), entry.text>>}
              ELSE LeavesFrom(entry, Append(path, part)) :
           part \in DOMAIN tree.entries}

\* the <<key, text>> pairs of the leaves of a tree
Leaves(tree) == LeavesFrom(tree, <<>>)

RECURSIVE NoEmptyObject(_)
NoEmptyObject(tree) ==
    \A part \in DOMAIN tree.entries :
        LET entry == tree.entries[part]
        IN entry.kind = "object" =>
               (DOMAIN entry.entries # {} /\ NoEmptyObject(entry))

Malformed(call) ==
    IF isLocalizeCall(call) THEN extractFromLocalizeCall(call).message # NoMessage
    ELSE extractFromLocalizedCommandCall(call).message # NoMessage

\* the <<key, value>> pairs a well-formed call extracts, in insertion order
PairsOf(call) ==
    IF Malformed(call) THEN <<>>
    ELSE IF isLocalizeCall(call)
    THEN LET e == extractFromLocalizeCall(call) IN <<(<<e.key, e.value>>)>>
    ELSE LET e == extractFromLocalizedCommandCall(call)
         IN IF e.category = <<>> THEN <<e.label>> ELSE <<e.label, e.category>>

\* the occurrences of a key in the file: pair `pair' of call `call', for the
\* pairs whose key is not excluded
OccurrencesOf(src, opts) ==
    UNION {LET pairs == PairsOf(src[i])
           IN {[call |-> i, pair |-> j, key |-> pairs[j][1], value |-> pairs[j][2]] :
                  j \in {k \in 1..Len(pairs) : ~isExcluded(opts, pairs[k][1])}} :
           i \in 1..Len(src)}

ProperPathPrefix(k1, k2) ==
    LET p1 == split(k1)
        p2 == split(k2)
    IN Len(p1) < Len(p2) /\ SubSeq(p2, 1, Len(p1)) = p1

\* no extracted key of the file is a proper path prefix of key, or has it as
\* one: none can meet it as a leaf-vs-nested conflict
ConflictFreeKey(occ, key) ==
    \A o \in occ : ~ProperPathPrefix(key, o.key) /\ ~ProperPathPrefix(o.key, key)

\* the calls none of whose keys can meet a conflict
ConflictFreeCalls(occ) ==
    {i \in {o.call : o \in occ} :
        \A o \in occ : o.call = i => ConflictFreeKey(occ, o.key)}

Before(o1, o2) == o1.call < o2.call \/ (o1.call = o2.call /\ o1.pair <= o2.pair)

MalformedCalls(src) == {i \in 1..Len(src) : Malformed(src[i])}

Taken == source'[Len(source')]

TakesCall == Len(source') = Len(source) + 1

InsertConflicts(tree, key) ==
    StringOnProperPrefix(tree, key) \/ Lookup(tree, key).kind = "object"

\* C3: with a non-empty exclude prefix, no leaf of the fragment has a key that
\* starts with the prefix and the fragment holds no node without a leaf below it;
\* a call whose only key is excluded changes neither the fragment nor the error
\* sink; a Pattern B call whose label key is excluded still inserts its
\* non-excluded category key (unless that insertion itself conflicts).
C3_Excluded ==
    /\ [](/\ options.exclude # <<>> =>
                \A leaf \in Leaves(fileLocalization) :
                    ~startsWith(leaf[1], options.exclude)
          /\ NoEmptyObject(fileLocalization))
    /\ [][(TakesCall /\ options.exclude # <<>> /\ ~Malformed(Taken)) =>
             LET pairs == PairsOf(Taken)
                 kept == {j \in 1..Len(pairs) : ~isExcluded(options, pairs[j][1])}
             IN /\ kept = {} => (errors' = errors /\ fileLocalization' = fileLocalization)
                /\ (kept = {2} /\ ~InsertConflicts(fileLocalization, pairs[2][1])) =>
                       /\ errors' = errors
                       /\ Leaves(fileLocalization') =
                              {l \in Leaves(fileLocalization) : l[1] # pairs[2][1]}
                              \cup {pairs[2]}]_vars

\* a Pattern B call whose label key "a/b" is excluded and whose category key
\* "b" is not: only the category is in the fragment
C3_Witness ==
    /\ options.exclude = <<"a", "/">>
    /\ Len(source) = 1
    /\ PairsOf(source[1]) = <<(<<(<<"a", "/", "b">>), (<<"1">>)>>), (<<(<<"b">>), (<<"2">>)>>)>>
    /\ Leaves(fileLocalization) = {<<(<<"b">>), (<<"2">>)>>}
    /\ errors = <<>>

(***************************************************************************)
(* C8.  Insertion conflicts, key by key.                                   *)
(***************************************************************************)
\* C8 as claimed: a conflict costs only the key that conflicts; every other
\* extracted, non-excluded key, the category key of a Pattern B call whose label
\* key conflicted included, is a leaf of the returned fragment.
C8_PerKeyRecovery ==
    filePc = "returned" =>
        LET occ == OccurrencesOf(source, options)
        IN \A o \in occ :
               ConflictFreeKey(occ, o.key) =>
                   Lookup(fileLocalization, o.key).kind = "string"

EventsOf(kinds) == {i \in 1..Len(events) : events[i].kind \in kinds}

Failures ==
    {"globFailed", "readFailed", "writeLogsFailed", "readOutputFailed", "writeOutputFailed"}

IsPrefixOf(s, t) == Len(s) <= Len(t) /\ SubSeq(t, 1, Len(s)) = s

\* C9: files are read one at a time in the order of the matches, each file's
\* fragment merged into the aggregate before the next file is read; error
\* records are only appended, in the order the files are processed; once every
\* file is processed the log is written, exactly once, if and only if an error
\* was recorded and a log path is configured; the output is written exactly
\* once, as the last operation, after every file, the log write and the merge
\* with the existing output; a failed operation ends the run with no output
\* written.
C9_Sequencing ==
    /\ [](/\ \A i \in EventsOf({"read"}) :
                /\ events[i].file = Cardinality({j \in EventsOf({"read"}) : j < i}) + 1
                /\ events[i - 1] = IF events[i].file = 1 THEN Event("glob", 0)
                                   ELSE Event("merge", events[i].file - 1)
          /\ \A i \in EventsOf({"merge"}) : events[i - 1] = Event("read", events[i].file)
          /\ \A j, k \in 1..Len(errors) :
                (j < k /\ errors[j].file # <<>> /\ errors[k].file # <<>>)
                    => errors[j].file[2] <= errors[k].file[2]
          /\ Cardinality(EventsOf({"writeLogs"})) <= 1
          /\ \A i \in EventsOf({"writeLogs", "writeLogsFailed"}) :
                Cardinality({j \in EventsOf({"merge"}) : j < i}) = files
          /\ pc \in {"merge", "write", "done"} =>
                /\ logs.written <=> (errors # <<>> /\ options.logs)
                /\ logs.written => logs.lines = errors
                /\ Cardinality(EventsOf({"merge"})) = files
          /\ pc \in {"glob", "loop", "extract"} => ~logs.written
          /\ output.written <=> pc = "done"
          /\ pc = "done" =>
                /\ EventsOf({"writeOutput"}) = {Len(events)}
                /\ output.content = localization
          /\ EventsOf(Failures) # {} =>
                (pc = "rejected" /\ EventsOf(Failures) = {Len(events)})
          /\ pc = "rejected" => EventsOf(Failures) # {})
    /\ [][/\ IsPrefixOf(errors, errors')
          /\ \A j \in (Len(errors) + 1)..Len(errors') :
                errors'[j].file \in {<<>>, PathOf(fileIndex)}]_vars

\* two files with one error, a log path and merge mode: the log and the output
\* are both written, the output last
C9_Witness ==
    /\ pc = "done"
    /\ files = 2
    /\ Len(errors) = 1
    /\ logs.written
    /\ output.written
    /\ [i \in 1..Len(events) |-> events[i].kind] =
           <<"glob", "read", "merge", "read", "merge", "writeLogs", "readOutput", "writeOutput">>

(***************************************************************************)
(* C4.  Merge.                                                             *)
(***************************************************************************)
RECURSIVE ObjectPathsFrom(_, _)
ObjectPathsFrom(tree, path) ==
    {path} \cup UNION {IF tree.entries[part].kind = "object"
                       THEN ObjectPathsFrom(tree.entries[part], Append(path, part))
                       ELSE {} :
                       part \in DOMAIN tree.entries}

\* neither the key nor a proper prefix of it is set in the tree
Untouched(tree, key) ==
    Lookup(tree, key).kind = "absent" /\ ~StringOnProperPrefix(tree, key)

\* merged is the last-write-wins deep merge of later over earlier
IsDeepMerge(earlier, later, merged) ==
    /\ \A leaf \in Leaves(later) : Lookup(merged, leaf[1]) = StringEntry(leaf[2])
    /\ \A leaf \in Leaves(earlier) :
           Untouched(later, leaf[1]) => Lookup(merged, leaf[1]) = StringEntry(leaf[2])
    /\ Leaves(merged) \subseteq Leaves(earlier) \cup Leaves(later)
    /\ \A path \in ObjectPathsFrom(earlier, <<>>) \cap ObjectPathsFrom(later, <<>>) :
           LET m == LookupPath(merged, path)
           IN /\ m.kind = "object"
              /\ DOMAIN m.entries = DOMAIN LookupPath(earlier, path).entries
                                    \cup DOMAIN LookupPath(later, path).entries

LastEvent == events'[Len(events')]

NewEvent(kind) == Len(events') = Len(events) + 1 /\ LastEvent.kind = kind

\* C4: every merge of a run is the last-write-wins deep merge of the later
\* operand over the earlier one: each leaf of the later operand is a leaf of the
\* result with its value, each leaf of the earlier operand that the later one
\* neither sets nor covers is kept, nested catalogs of both sides are combined
\* key by key, and no leaf is invented.  The aggregate after a file is the merge
\* of the file's fragment over the aggregate before it; the existing output is
\* read only in merge mode, and then the catalog written is the merge of the
\* aggregate over it; the aggregate changes in no other step, and the catalog
\* written is the aggregate.  {a:"1",b:{c:"2"}} over {a:"0",b:{d:"3"}} gives
\* {a:"1",b:{c:"2",d:"3"}}.
C4_Merge ==
    /\ [][/\ NewEvent("merge") => IsDeepMerge(localization, fileLocalization', localization')
          /\ NewEvent("readOutput") =>
                /\ options.merge
                /\ IsDeepMerge(existing', localization, localization')
                /\ (/\ existing' = FromPairs(<<(<<(<<"a">>), (<<"0">>)>>),
                                              (<<(<<"b", "/", "d">>), (<<"3">>)>>)>>)
                    /\ localization = FromPairs(<<(<<(<<"a">>), (<<"1">>)>>),
                                                 (<<(<<"b", "/", "c">>), (<<"2">>)>>)>>))
                   => localization' = FromPairs(<<(<<(<<"a">>), (<<"1">>)>>),
                                                 (<<(<<"b", "/", "c">>), (<<"2">>)>>),
                                                 (<<(<<"b", "/", "d">>), (<<"3">>)>>)>>)
          /\ localization' # localization =>
                (NewEvent("merge") \/ NewEvent("readOutput"))
          /\ NewEvent("writeOutput") => output'.content = localization]_vars
    /\ [](~options.merge =>
             EventsOf({"readOutput", "readOutputFailed", "noOutputYet"}) = {})

\* the spec's example, written in merge mode after two files that both set "a"
C4_Witness ==
    /\ pc = "done"
    /\ options.merge
    /\ files = 2
    /\ existing = FromPairs(<<(<<(<<"a">>), (<<"0">>)>>), (<<(<<"b", "/", "d">>), (<<"3">>)>>)>>)
    /\ \E i \in EventsOf({"readOutput"}) : TRUE
    /\ output.content = FromPairs(<<(<<(<<"a">>), (<<"1">>)>>),
                                    (<<(<<"b", "/", "c">>), (<<"2">>)>>),
                                    (<<(<<"b", "/", "d">>), (<<"3">>)>>)>>)

(***************************************************************************)
(* C5.  Pattern A.                                                         *)
(***************************************************************************)
TwoLiterals(n) ==
    /\ Len(n.args) >= 2
    /\ n.args[1].kind = "stringLiteral"
    /\ n.args[2].kind = "stringLiteral"

\* C5 as claimed: a localize call whose first two arguments are string literals
\* yields the key as written and the unescaped default value.
C5_KeyAsWritten ==
    (extracted.pattern = "A" /\ TwoLiterals(node)) =>
        /\ extracted.message = NoMessage
        /\ extracted.key = node.args[1].text
        /\ extracted.value = unescapeString(node.args[2].text)

\* C5 amended: a localize call with at least two arguments whose first two are
\* string literals yields, without error, exactly the pair (unescape(key text),
\* unescape(value text)), whatever follows the second argument; both the key and
\* the default value are unescaped.
C5_BothUnescaped ==
    (extracted.pattern = "A" /\ TwoLiterals(node)) =>
        /\ extracted.message = NoMessage
        /\ extracted.key = unescapeString(node.args[1].text)
        /\ extracted.value = unescapeString(node.args[2].text)

\* a key holding an escape, a third argument that is no literal
C5_Witness ==
    /\ extracted.pattern = "A"
    /\ node.args = <<StringLiteral(<<BS, "n">>), StringLiteral(<<"k">>), OtherExpression>>
    /\ extracted.key = <<LF>>
    /\ extracted.value = <<"k">>

(***************************************************************************)
(* C6.  Pattern B.                                                         *)
(***************************************************************************)
\* the object literal holds only nameless members and identifier-named
\* assignments, and id, label and category are string literals where given
WellFormedCommand(n) ==
    /\ Len(n.args) >= 1
    /\ n.args[1].kind = "objectLiteral"
    /\ \A i \in 1..Len(n.args[1].properties) :
           LET p == n.args[1].properties[i]
           IN p.nameKind = "none"
              \/ (/\ p.kind = "assignment" /\ p.nameKind = "identifier"
                  /\ p.name \in relevantProps => p.initializer.kind = "stringLiteral")
    /\ \A i \in 2..Len(n.args) : i <= 3 => n.args[i].kind = "stringLiteral"

\* the text the last assignment to `name' gives it, <<>> when there is none
PropertyText(n, name) ==
    LET ps == n.args[1].properties
        at == {i \in 1..Len(ps) : ps[i].nameKind = "identifier" /\ ps[i].name = name}
    IN IF at = {} THEN <<>>
       ELSE unescapeString(ps[CHOOSE i \in at : \A j \in at : j <= i].initializer.text)

ArgText(n, i) == IF Len(n.args) >= i THEN unescapeString(n.args[i].text) ELSE <<>>

\* C6: for a well-formed toLocalizedCommand call, the label key is argument 1
\* when present and non-empty and the id otherwise; the call is an error exactly
\* when no label key results or the label is missing or empty; otherwise the
\* label pair is (label key, label) and the category pair is (argument 2,
\* category) when both are present and non-empty and is omitted, with no error,
\* otherwise.  {id:K,label:L} alone gives (K,L) and no category pair;
\* ({id:K,label:L,category:C}, K2, C2) gives (K2,L) and (C2,C).
C6_CommandPairs ==
    (extracted.pattern = "B" /\ WellFormedCommand(node)) =>
        LET labelKey == IF ArgText(node, 2) # <<>> THEN ArgText(node, 2)
                        ELSE PropertyText(node, "id")
            L == PropertyText(node, "label")
            C == PropertyText(node, "category")
        IN /\ extracted.message # NoMessage <=> (labelKey = <<>> \/ L = <<>>)
           /\ labelKey = <<>> => extracted.message.msg = "No label key found"
           /\ extracted.message = NoMessage =>
                  /\ extracted.label = <<labelKey, L>>
                  /\ extracted.category =
                         IF ArgText(node, 3) # <<>> /\ C # <<>>
                         THEN <<ArgText(node, 3), C>> ELSE <<>>
           /\ node.args = <<ObjectLiteral(<<PropertyAssignment("id", StringLiteral(<<"K">>)),
                                            PropertyAssignment("label", StringLiteral(<<"L">>))>>)>>
                  => /\ extracted.label = <<(<<"K">>), (<<"L">>)>>
                     /\ extracted.category = <<>>
           /\ node.args = <<ObjectLiteral(<<PropertyAssignment("id", StringLiteral(<<"K">>)),
                                            PropertyAssignment("label", StringLiteral(<<"L">>)),
                                            PropertyAssignment("category", StringLiteral(<<"C">>))>>),
                            StringLiteral(<<"K2">>), StringLiteral(<<"C2">>)>>
                  => /\ extracted.label = <<(<<"K2">>), (<<"L">>)>>
                     /\ extracted.category = <<(<<"C2">>), (<<"C">>)>>

\* an explicit label key and an explicit category key, both pairs extracted
C6_Witness ==
    /\ extracted.pattern = "B"
    /\ Len(node.args) = 3
    /\ extracted.label = <<(<<"K2">>), (<<"L">>)>>
    /\ extracted.category = <<(<<"C2">>), (<<"C">>)>>

(***************************************************************************)
(* C7.  Unescaping.                                                        *)
(***************************************************************************)
HasEscapePair(s) ==
    \E i \in 1..(Len(s) - 1) : s[i] = BS /\ s[i + 1] \in DOMAIN unescapeMap

\* C7 as claimed: unescaping is idempotent for every string s, that is,
\* unescapeString(unescapeString(s)) = unescapeString(s).
C7_IdempotentEverywhere == Len(result) = 2 => result[2] = result[1]

\* C7 amended: (a) a string holding no backslash followed by a recognised
\* character is returned unchanged, so a backslash before any other character and
\* a trailing backslash stay; (b) the first backslash that is followed by a
\* recognised character is replaced, with that character, by the character's
\* meaning, the text before it is kept and the text after it is unescaped in
\* turn; (c) unescaping twice equals unescaping once whenever the first output
\* holds no backslash followed by a recognised character.
C7_Unescape ==
    /\ (Len(result) >= 1 /\ ~HasEscapePair(str)) => result[1] = str
    /\ (Len(result) >= 1 /\ HasEscapePair(str)) =>
           LET i == CHOOSE j \in 1..(Len(str) - 1) :
                        /\ str[j] = BS /\ str[j + 1] \in DOMAIN unescapeMap
                        /\ \A k \in 1..(j - 1) :
                               ~(str[k] = BS /\ str[k + 1] \in DOMAIN unescapeMap)
           IN result[1] = SubSeq(str, 1, i - 1) \o <<unescapeMap[str[i + 1]]>>
                          \o unescapeString(SubSeq(str, i + 2, Len(str)))
    /\ (Len(result) = 2 /\ ~HasEscapePair(result[1])) => result[2] = result[1]
    /\ (Len(result) >= 1 /\ str = <<"a", BS, "n", "b">>) => result[1] = <<"a", LF, "b">>
    /\ (Len(result) >= 1 /\ str = <<"a", BS, "q", "b">>) => result[1] = str

\* a string with a recognised escape and a trailing backslash, unescaped twice
C7_Witness == Len(result) = 2 /\ str = <<BS, "n", BS>> /\ result[2] = <<LF, BS>>

(***************************************************************************)
(* C2.  Structural conflicts of insert.                                    *)
(***************************************************************************)
\* C2: in every catalog built by insert calls, an insert call throws when a proper
\* prefix of its key holds a string and when the key itself holds a nested
\* catalog, and throws in no other case; the catalog after a throwing call equals
\* the catalog before it, and after any other call the key holds the value.
C2_ConflictNoMutation ==
    [][inserted' # NoCall =>
          LET key == inserted'.key
          IN /\ StringOnProperPrefix(catalog, key) <=>
                    thrown'.msg = "String entry already exists at"
             /\ (~StringOnProperPrefix(catalog, key) /\ Lookup(catalog, key).kind = "object")
                    <=> thrown'.msg = "Multiple tranlation keys already exist at"
             /\ thrown' # NoError => catalog' = catalog
             /\ thrown' = NoError => Lookup(catalog', key) = StringEntry(inserted'.value)
             /\ (catalog = FromPairs(<<(<<(<<"a">>), (<<"1">>)>>)>>) /\ key = <<"a", "/", "b">>)
                    => thrown' # NoError
             /\ (catalog = FromPairs(<<(<<(<<"a", "/", "b">>), (<<"1">>)>>)>>) /\ key = <<"a">>)
                    => thrown' # NoError]_vars

\* "a" holds a string and the call inserting "a/b" has just thrown
C2_Witness ==
    /\ inserted.key = <<"a", "/", "b">>
    /\ thrown = [msg |-> "String entry already exists at", at |-> <<"a">>]
    /\ catalog = FromPairs(<<(<<(<<"a">>), (<<"1">>)>>)>>)

====
